---- MODULE Spec2Model ----
(***************************************************************************)
(* Model of the blanket_trait attribute macro (src/src/lib.rs).           *)
(*                                                                         *)
(* Tokens are strings.  A delimited group that the macro never looks into  *)
(* (a function body, a parameter list, an attribute's bracket) is one      *)
(* string, so it moves through the model as the opaque unit it is.         *)
(***************************************************************************)
EXTENDS Integers, Sequences, FiniteSets, TLC

\* ------------------------------------------------------------------ bounds
\* Largest number of members in an input trait block.
MaxMembers == 3
\* Largest block tried under every header; longer blocks are tried under the
\* headers of CoreHeaders.
MaxMembersAnyHeader == 1

\* ------------------------------------------------------------------ tokens
None == "<none>"
Eof == "<eof>"

\* Identifiers usable as the trait path or the self type of the header.
IdentToks == {"B", "T"}
\* Generic parameters and where predicates, each taken as one unit.
ParamToks == {"T: A", "U"}
PredicateToks == {"T::AA: Send"}
BracketGroupToks == {"[cfg(a)]", "[inline]", "[doc]"}
BraceGroupToks == {"{ self.aa() }", "{ X::a(self) }", "{ 1 + 2 }"}
\* The three keywords that introduce a member.
ItemKeywords == {"fn", "type", "const"}

Peek(toks, p) == IF p >= 1 /\ p <= Len(toks) THEN toks[p] ELSE Eof

RECURSIVE Concat(_)
Concat(ss) == IF ss = <<>> THEN <<>> ELSE Head(ss) \o Concat(Tail(ss))

RECURSIVE Join(_, _)
\* The elements of xs with sep between neighbours (a Punctuated list, printed).
Join(xs, sep) ==
    IF Len(xs) <= 1 THEN xs ELSE <<Head(xs), sep>> \o Join(Tail(xs), sep)

\* ------------------------------------------------------------------ header
HeaderErr(msg, p) == [ok |-> FALSE, msg |-> msg, span |-> p]

RECURSIVE ParseOuterAttrs(_, _, _)
\* Attribute::parse_outer: # [...] pairs, as many as there are.
ParseOuterAttrs(toks, p, acc) ==
    IF Peek(toks, p) # "#" THEN [ok |-> TRUE, attrs |-> acc, next |-> p]
    ELSE IF Peek(toks, p + 1) \notin BracketGroupToks
         THEN HeaderErr("expected [", p + 1)
         ELSE ParseOuterAttrs(toks, p + 2, Append(acc, Peek(toks, p + 1)))

RECURSIVE ParseParams(_, _, _)
\* The parameters between < and >, comma separated; p is past the <.
ParseParams(toks, p, acc) ==
    IF Peek(toks, p) = ">" THEN [ok |-> TRUE, params |-> acc, next |-> p + 1]
    ELSE IF Peek(toks, p) \notin ParamToks
         THEN HeaderErr("expected generic parameter", p)
         ELSE IF Peek(toks, p + 1) = ">"
              THEN [ok |-> TRUE, params |-> Append(acc, toks[p]), next |-> p + 2]
              ELSE IF Peek(toks, p + 1) # ","
                   THEN HeaderErr("expected ,", p + 1)
                   ELSE ParseParams(toks, p + 2, Append(acc, toks[p]))

\* Generics::parse: a <...> list when one starts here, else no parameters.
\* It never reads a where clause.
ParseGenerics(toks, p) ==
    IF Peek(toks, p) # "<" THEN [ok |-> TRUE, params |-> <<>>, next |-> p]
    ELSE ParseParams(toks, p + 1, <<>>)

RECURSIVE ParsePredicates(_, _, _)
\* WhereClause::parse after the where keyword.
ParsePredicates(toks, p, acc) ==
    IF Peek(toks, p) \in {Eof, ",", ";", ":", "="} \cup BraceGroupToks
    THEN [ok |-> TRUE, predicates |-> acc, next |-> p]
    ELSE IF Peek(toks, p) \notin PredicateToks
         THEN HeaderErr("expected where predicate", p)
         ELSE IF Peek(toks, p + 1) # ","
              THEN [ok |-> TRUE, predicates |-> Append(acc, toks[p]), next |-> p + 1]
              ELSE ParsePredicates(toks, p + 2, Append(acc, toks[p]))

\* Option<WhereClause>::parse: None unless the next token is where.  An Option
\* is a sequence of at most one element: <<>> is None, <<x>> is Some(x).
ParseWhere(toks, p) ==
    IF Peek(toks, p) # "where"
    THEN [ok |-> TRUE, clause |-> <<>>, next |-> p]
    ELSE LET w == ParsePredicates(toks, p + 1, <<>>)
         IN IF ~w.ok THEN w
            ELSE [ok |-> TRUE, clause |-> <<w.predicates>>, next |-> w.next]

\* The where clause parsed and then left out of the generics.
AttachWhereLost(generics, clause) == generics

\* Where the parsed where clause is put: into the generics record.
AttachWhere(generics, clause) == [generics EXCEPT !.where_clause = clause]

\* ItemImplHeader::parse, field by field in declaration order.
ParseItemImplHeader(toks) ==
    LET a == ParseOuterAttrs(toks, 1, <<>>) IN
    IF ~a.ok THEN a ELSE
    LET unsafety == Peek(toks, a.next) = "unsafe"
        p2 == IF unsafety THEN a.next + 1 ELSE a.next
    IN
    IF Peek(toks, p2) # "impl" THEN HeaderErr("expected impl", p2) ELSE
    LET g == ParseGenerics(toks, p2 + 1) IN
    IF ~g.ok THEN g ELSE
    LET p4 == g.next IN
    IF Peek(toks, p4) \notin IdentToks THEN HeaderErr("expected identifier", p4) ELSE
    IF Peek(toks, p4 + 1) # "for" THEN HeaderErr("expected for", p4 + 1) ELSE
    IF Peek(toks, p4 + 2) \notin IdentToks THEN HeaderErr("expected type", p4 + 2) ELSE
    LET w == ParseWhere(toks, p4 + 3) IN
    IF ~w.ok THEN w ELSE
    [ok |-> TRUE,
     attrs |-> a.attrs,
     unsafety |-> unsafety,
     generics |-> AttachWhere([params |-> g.params, where_clause |-> <<>>], w.clause),
     path |-> toks[p4],
     self_ty |-> toks[p4 + 2],
     next |-> w.next]

\* parse_macro_input!(first as ItemImplHeader): the parse, and nothing may follow.
ParseHeaderInput(toks) ==
    LET h == ParseItemImplHeader(toks) IN
    IF ~h.ok THEN h
    ELSE IF h.next <= Len(toks) THEN HeaderErr("unexpected token", h.next)
    ELSE h

RECURSIVE AttrTokens(_)
\* Outer attributes printed: # and the bracket of each.
AttrTokens(attrs) ==
    IF attrs = <<>> THEN <<>> ELSE <<"#", Head(attrs)>> \o AttrTokens(Tail(attrs))

GenericsTokens(generics) ==
    IF generics.params = <<>> THEN <<>>
    ELSE <<"<">> \o Join(generics.params, ",") \o <<">">>

WhereTokens(generics) ==
    IF generics.where_clause = <<>> \/ generics.where_clause[1] = <<>> THEN <<>>
    ELSE <<"where">> \o Join(generics.where_clause[1], ",")

\* The head of the printed ItemImpl, up to its brace.
ImplHeaderTokens(h) ==
    AttrTokens(h.attrs)
    \o (IF h.unsafety THEN <<"unsafe">> ELSE <<>>)
    \o <<"impl">> \o GenericsTokens(h.generics)
    \o <<h.path, "for", h.self_ty>>
    \o WhereTokens(h.generics)

\* ----------------------------------------------------------------- members
\* A member of the trait block.  sig is what follows the name (parameter list
\* and return type, generics, or the type annotation of a constant); bounds
\* are the bounds of an associated type; default is the Option holding the
\* body, or the = and the value: <<>> is None.
Mk(kind, attrs, ident, sig, bounds, default) ==
    [kind |-> kind, attrs |-> attrs, ident |-> ident, sig |-> sig,
     bounds |-> bounds, default |-> default]

RealKinds == {"Fn", "Type", "Const"}
OpaqueKinds == {"Macro", "Verbatim"}
Keyword(kind) ==
    CASE kind = "Fn" -> "fn" [] kind = "Type" -> "type" [] kind = "Const" -> "const"

SigA == <<"(&self)", "->", "i32">>
SigB == <<"(&mut self)", "->", "impl", "Future", "<", "Output", "=", "i32", ">">>

MemberShapes ==
    { Mk("Fn", <<>>, "a", SigA, <<>>, <<"{ self.aa() }">>),
      Mk("Fn", <<"[inline]">>, "a", SigA, <<>>, <<"{ self.aa() }">>),
      Mk("Fn", <<>>, "a", SigA, <<>>, <<>>),
      Mk("Fn", <<>>, "b", SigB, <<>>, <<"{ X::a(self) }">>),
      Mk("Type", <<>>, "X", <<>>, <<>>, <<"=", "T::AA">>),
      Mk("Type", <<"[doc]">>, "X", <<>>, <<":", "Send">>, <<"=", "T::AA">>),
      Mk("Type", <<>>, "X", <<>>, <<>>, <<>>),
      Mk("Const", <<>>, "N", <<":", "usize">>, <<>>, <<"=", "1">>),
      Mk("Const", <<>>, "M", <<":", "usize">>, <<>>, <<"=", "{ 1 + 2 }">>),
      Mk("Const", <<>>, "N", <<":", "usize">>, <<>>, <<>>),
      Mk("Macro", <<>>, None, <<"m!", "()", ";">>, <<>>, <<>>),
      Mk("Verbatim", <<>>, None, <<"pub", "type", "V", ";">>, <<>>, <<>>) }

Blocks == UNION { [1..n -> MemberShapes] : n \in 0..MaxMembers }

\* The default read without being taken: the member keeps it.
KeepDefault(m) == m

\* Option::take on the member's default: the member keeps None.
TakeDefault(m) == [m EXCEPT !.default = <<>>]

\* The function item built without the member's attributes.
ImplItemFnNoAttrs(f, block) ==
    [kind |-> "Fn", attrs |-> <<>>, ident |-> f.ident, sig |-> f.sig,
     default |-> block]
\* The constant item built from the member after the take: its default is None.
ImplItemConstNoValue(c, def) ==
    [kind |-> "Const", attrs |-> c.attrs, ident |-> c.ident, sig |-> c.sig,
     default |-> TakeDefault(c).default]

\* The impl items built from a member and the default taken out of it.
ImplItemFn(f, block) ==
    [kind |-> "Fn", attrs |-> f.attrs, ident |-> f.ident, sig |-> f.sig,
     default |-> block]
ImplItemType(t, def) ==
    [kind |-> "Type", attrs |-> t.attrs, ident |-> t.ident, sig |-> t.sig,
     default |-> def]
ImplItemConst(c, def) ==
    [kind |-> "Const", attrs |-> c.attrs, ident |-> c.ident, sig |-> c.sig,
     default |-> def]

\* The item put in front of the collected ones.
PushFront(items, item) == <<item>> \o items

\* items.push(..)
Push(items, item) == Append(items, item)

\* One message for every kind.
MissingDefaultMsgSame(kind) == "Expected default value."

\* The message of the error returned for a member of this kind without default.
MissingDefaultMsg(kind) ==
    CASE kind = "Fn" -> "Expected function body"
      [] kind = "Type" -> "Expected default value."
      [] kind = "Const" -> "Expected default value."

\* ---------------------------------------------------------------- printing
\* A trait item printed.  A function without a body ends in a semicolon.
TraitItemTokens(m) ==
    CASE m.kind = "Fn" ->
           AttrTokens(m.attrs) \o <<"fn", m.ident>> \o m.sig
           \o (IF m.default = <<>> THEN <<";">> ELSE m.default)
      [] m.kind = "Type" ->
           AttrTokens(m.attrs) \o <<"type", m.ident>> \o m.sig \o m.bounds
           \o m.default \o <<";">>
      [] m.kind = "Const" ->
           AttrTokens(m.attrs) \o <<"const", m.ident>> \o m.sig
           \o m.default \o <<";">>
      [] OTHER -> m.sig

\* An impl item printed: inherited visibility and no defaultness print nothing.
ImplItemTokens(i) ==
    CASE i.kind = "Fn" -> AttrTokens(i.attrs) \o <<"fn", i.ident>> \o i.sig \o i.default
      [] i.kind = "Type" ->
           AttrTokens(i.attrs) \o <<"type", i.ident>> \o i.sig \o i.default \o <<";">>
      [] i.kind = "Const" ->
           AttrTokens(i.attrs) \o <<"const", i.ident>> \o i.sig \o i.default \o <<";">>

TraitItemsTokens(ms) == Concat([k \in 1..Len(ms) |-> TraitItemTokens(ms[k])])
ImplItemsTokens(is) == Concat([k \in 1..Len(is) |-> ImplItemTokens(is[k])])

\* #trait_block: the shell of the trait and its members inside the brace.
TraitTokens(shell, ms) == shell \o <<"{">> \o TraitItemsTokens(ms) \o <<"}">>
\* #out_impl: the header and the items inside the trait's brace.
ImplTokens(h, is) == ImplHeaderTokens(h) \o <<"{">> \o ImplItemsTokens(is) \o <<"}">>
\* quote! { #trait_block #out_impl }
QuoteOutput(shell, ms, h, is) == TraitTokens(shell, ms) \o ImplTokens(h, is)
\* syn::Error::into_compile_error
CompileError(msg) == <<"compile_error!", msg>>

\* ------------------------------------------------------------------ inputs
\* The parts of a well-formed header, and the header written out from them.
HeaderParts ==
    [attrs : {<<>>, <<"[cfg(a)]">>},
     unsafety : BOOLEAN,
     params : {<<>>, <<"T: A">>, <<"T: A", "U">>},
     path : {"B"},
     self_ty : {"T"},
     where_clause : {<<>>, << <<"T::AA: Send">> >>}]

HeaderText(c) ==
    Concat([k \in 1..Len(c.attrs) |-> <<"#", c.attrs[k]>>])
    \o (IF c.unsafety THEN <<"unsafe">> ELSE <<>>)
    \o <<"impl">>
    \o (IF c.params = <<>> THEN <<>> ELSE <<"<">> \o Join(c.params, ",") \o <<">">>)
    \o <<c.path, "for", c.self_ty>>
    \o (IF c.where_clause = <<>> THEN <<>>
        ELSE <<"where">> \o Join(c.where_clause[1], ","))

WellFormedHeaders == { HeaderText(c) : c \in HeaderParts }

MalformedHeaders ==
    { <<"B", "for", "T">>,
      <<"impl", "<", "T: A", ">", "B", "T">>,
      <<"impl", "for", "T">>,
      <<"impl", "B", "for", "T", "B">>,
      <<"#", "impl", "B", "for", "T">>,
      <<"impl", "<", "T: A", "B", "for", "T">> }

HeaderInputs == WellFormedHeaders \cup MalformedHeaders

\* The example header of the tests: impl<T: A> B for T where T::AA: Send
ExampleHeader ==
    <<"impl", "<", "T: A", ">", "B", "for", "T", "where", "T::AA: Send">>

\* The headers every block is tried under.
CoreHeaders ==
    { ExampleHeader,
      <<"impl", "B", "for", "T">>,
      <<"#", "[cfg(a)]", "unsafe", "impl", "<", "T: A", ",", "U", ">", "B", "for", "T">>,
      <<"impl", "for", "T">> }

TraitShell == <<"pub", "trait", "B">>
NotATrait == [ok |-> FALSE, shell |-> <<>>, items |-> <<>>]
TraitInputs ==
    {NotATrait} \cup { [ok |-> TRUE, shell |-> TraitShell, items |-> b] : b \in Blocks }

\* ------------------------------------------------------------------- state
VARIABLES
    first,         \* the attribute's argument: the header tokens
    tokens,        \* the annotated item
    pc,            \* where blanket_trait is
    header,        \* the parsed ItemImplHeader
    trait_block,   \* the members of the parsed ItemTrait, drained in place
    items,         \* the impl items collected so far
    idx,           \* the member the loop is at (0 before the loop)
    result,        \* what the macro returned
    pos,           \* token scan: the token the scan is at
    in_default,    \* token scan: inside a default value
    decl_stream,   \* token scan: declaration-side tokens
    bind_stream    \* token scan: binding-side tokens

structVars == <<pc, header, trait_block, items, idx, result>>
scanVars == <<pos, in_default, decl_stream, bind_stream>>
vars == <<first, tokens, pc, header, trait_block, items, idx, result,
          pos, in_default, decl_stream, bind_stream>>

Pending == [kind |-> "pending", at |-> "none", msg |-> None, span |-> 0, stream |-> <<>>]
Failure(at, msg, span) ==
    [kind |-> "error", at |-> at, msg |-> msg, span |-> span,
     stream |-> CompileError(msg)]
Success(stream) ==
    [kind |-> "ok", at |-> "none", msg |-> None, span |-> 0, stream |-> stream]

NoHeader == [ok |-> FALSE, msg |-> None, span |-> 0]

Init ==
    /\ first \in HeaderInputs
    /\ tokens \in TraitInputs
    /\ first \in CoreHeaders \/ Len(tokens.items) <= MaxMembersAnyHeader
    /\ pc = "parse_header"
    /\ header = NoHeader
    /\ trait_block = <<>>
    /\ items = <<>>
    /\ idx = 0
    /\ result = Pending
    /\ pos = 1
    /\ in_default = FALSE
    /\ decl_stream = <<>>
    /\ bind_stream = <<>>

\* ------------------------------------------------------ structured splitter
\* The header parsed with its error left for later: the run goes on.
ParseHeaderDeferred ==
    /\ pc = "parse_header"
    /\ header' = ParseHeaderInput(first)
    /\ pc' = "parse_trait"
    /\ UNCHANGED <<first, tokens, trait_block, items, idx, result, scanVars>>

\* let header = parse_macro_input!(first as ItemImplHeader);
ParseHeader ==
    /\ pc = "parse_header"
    /\ LET h == ParseHeaderInput(first) IN
       IF h.ok
       THEN /\ header' = h
            /\ pc' = "parse_trait"
            /\ UNCHANGED result
       ELSE /\ result' = Failure("header", h.msg, h.span)
            /\ pc' = "done"
            /\ UNCHANGED header
    /\ UNCHANGED <<first, tokens, trait_block, items, idx, scanVars>>

\* let mut trait_block = parse_macro_input!(tokens as ItemTrait);
\* let mut items = Vec::new();
ParseTrait ==
    /\ pc = "parse_trait"
    /\ IF tokens.ok
       THEN /\ trait_block' = tokens.items
            /\ items' = <<>>
            /\ idx' = 1
            /\ pc' = "items"
            /\ UNCHANGED result
       ELSE /\ result' = Failure("trait", "expected trait", 0)
            /\ pc' = "done"
            /\ UNCHANGED <<trait_block, items, idx>>
    /\ UNCHANGED <<first, tokens, header, scanVars>>

InLoop == pc = "items" /\ idx <= Len(trait_block)

\* A macro invocation held to the rule of the other members.
MacroArmRejects ==
    /\ InLoop
    /\ trait_block[idx].kind = "Macro"
    /\ result' = Failure("member", "Expected default value.", idx)
    /\ pc' = "done"
    /\ UNCHANGED <<first, tokens, header, trait_block, items, idx, scanVars>>

\* syn::TraitItem::Macro(_) => ()
MacroArm ==
    /\ InLoop
    /\ trait_block[idx].kind = "Macro"
    /\ idx' = idx + 1
    /\ UNCHANGED <<first, tokens, pc, header, trait_block, items, result, scanVars>>

\* syn::TraitItem::Verbatim(_) => ()
VerbatimArm ==
    /\ InLoop
    /\ trait_block[idx].kind = "Verbatim"
    /\ idx' = idx + 1
    /\ UNCHANGED <<first, tokens, pc, header, trait_block, items, result, scanVars>>

\* The early return of an arm whose member has no default.
ReturnMissingDefault(m) ==
    /\ result' = Failure("member", MissingDefaultMsg(m.kind), idx)
    /\ pc' = "done"
    /\ UNCHANGED <<trait_block, items, idx>>

\* A function without body passed over instead of reported.
FnArmLenient ==
    /\ InLoop
    /\ trait_block[idx].kind = "Fn"
    /\ LET f == trait_block[idx] IN
       IF f.default = <<>>
       THEN /\ idx' = idx + 1
            /\ UNCHANGED <<trait_block, items, pc, result>>
       ELSE /\ trait_block' = [trait_block EXCEPT ![idx] = TakeDefault(f)]
            /\ items' = Append(items, ImplItemFn(f, f.default))
            /\ idx' = idx + 1
            /\ UNCHANGED <<pc, result>>
    /\ UNCHANGED <<first, tokens, header, scanVars>>

\* syn::TraitItem::Fn(f) => ...
FnArm ==
    /\ InLoop
    /\ trait_block[idx].kind = "Fn"
    /\ LET f == trait_block[idx] IN
       IF f.default = <<>>
       THEN ReturnMissingDefault(f)
       ELSE /\ trait_block' = [trait_block EXCEPT ![idx] = TakeDefault(f)]
            /\ items' = Push(items, ImplItemFn(f, f.default))
            /\ idx' = idx + 1
            /\ UNCHANGED <<pc, result>>
    /\ UNCHANGED <<first, tokens, header, scanVars>>

\* syn::TraitItem::Type(t) => ...
TypeArm ==
    /\ InLoop
    /\ trait_block[idx].kind = "Type"
    /\ LET t == trait_block[idx] IN
       IF t.default = <<>>
       THEN ReturnMissingDefault(t)
       ELSE /\ trait_block' = [trait_block EXCEPT ![idx] = TakeDefault(t)]
            /\ items' = Push(items, ImplItemType(t, t.default))
            /\ idx' = idx + 1
            /\ UNCHANGED <<pc, result>>
    /\ UNCHANGED <<first, tokens, header, scanVars>>

\* syn::TraitItem::Const(c) => ...
ConstArm ==
    /\ InLoop
    /\ trait_block[idx].kind = "Const"
    /\ LET c == trait_block[idx] IN
       IF c.default = <<>>
       THEN ReturnMissingDefault(c)
       ELSE /\ trait_block' = [trait_block EXCEPT ![idx] = TakeDefault(c)]
            /\ items' = Push(items, ImplItemConst(c, c.default))
            /\ idx' = idx + 1
            /\ UNCHANGED <<pc, result>>
    /\ UNCHANGED <<first, tokens, header, scanVars>>

\* let out_impl = ItemImpl {..}; quote! { #trait_block #out_impl }.into()
Emit ==
    /\ pc = "items"
    /\ idx > Len(trait_block)
    /\ result' = Success(QuoteOutput(tokens.shell, trait_block, header, items))
    /\ pc' = "done"
    /\ UNCHANGED <<first, tokens, header, trait_block, items, idx, scanVars>>

Next ==
    \/ ParseHeader
    \/ ParseTrait
    \/ MacroArm
    \/ VerbatimArm
    \/ FnArm
    \/ TypeArm
    \/ ConstArm
    \/ Emit

Spec == Init /\ [][Next]_vars

\* ------------------------------------------------------------ token splitter
\* The single left-to-right scan over the tokens inside the block's brace.
ScanInput == TraitItemsTokens(tokens.items)
Scanning == pos <= Len(ScanInput)
ScanDone == pos > Len(ScanInput)

\* Rule 1: a brace group is a whole default; the declaration gets a terminator.
ScanBraceGroup ==
    /\ Scanning
    /\ ScanInput[pos] \in BraceGroupToks
    /\ decl_stream' = Append(decl_stream, ";")
    /\ bind_stream' = Append(bind_stream, ScanInput[pos])
    /\ pos' = pos + 1
    /\ UNCHANGED <<first, tokens, structVars, in_default>>

\* Rule 2: = starts a default value and goes to the binding only.
ScanEq ==
    /\ Scanning
    /\ ScanInput[pos] \notin BraceGroupToks
    /\ ScanInput[pos] = "="
    /\ in_default' = TRUE
    /\ bind_stream' = Append(bind_stream, ScanInput[pos])
    /\ pos' = pos + 1
    /\ UNCHANGED <<first, tokens, structVars, decl_stream>>

\* Rule 3: the terminator, or the keyword of the next member, ends the default.
ScanBoundary ==
    /\ Scanning
    /\ ScanInput[pos] \notin BraceGroupToks \cup {"="}
    /\ in_default
    /\ ScanInput[pos] \in {";"} \cup ItemKeywords
    /\ in_default' = FALSE
    /\ decl_stream' = Append(decl_stream, ScanInput[pos])
    /\ bind_stream' = Append(bind_stream, ScanInput[pos])
    /\ pos' = pos + 1
    /\ UNCHANGED <<first, tokens, structVars>>

\* Rule 4: the inside of a default value goes to the binding only.
ScanInterior ==
    /\ Scanning
    /\ ScanInput[pos] \notin BraceGroupToks \cup {"=", ";"} \cup ItemKeywords
    /\ in_default
    /\ bind_stream' = Append(bind_stream, ScanInput[pos])
    /\ pos' = pos + 1
    /\ UNCHANGED <<first, tokens, structVars, in_default, decl_stream>>

\* Rule 5: everything else goes to both.
ScanOther ==
    /\ Scanning
    /\ ScanInput[pos] \notin BraceGroupToks \cup {"="}
    /\ ~in_default
    /\ decl_stream' = Append(decl_stream, ScanInput[pos])
    /\ bind_stream' = Append(bind_stream, ScanInput[pos])
    /\ pos' = pos + 1
    /\ UNCHANGED <<first, tokens, structVars, in_default>>

NextScan ==
    \/ ScanBraceGroup
    \/ ScanEq
    \/ ScanBoundary
    \/ ScanInterior
    \/ ScanOther

InitScan == Init /\ first = ExampleHeader /\ tokens.ok

SpecScan == InitScan /\ [][NextScan]_vars

\* The structured splitter's loop as a function of the block: the members it
\* leaves in the trait, and the impl items it collects.
ImplItemOf(m) ==
    CASE m.kind = "Fn" -> ImplItemFn(m, m.default)
      [] m.kind = "Type" -> ImplItemType(m, m.default)
      [] m.kind = "Const" -> ImplItemConst(m, m.default)

IsReal(m) == m.kind \in RealKinds
StructuredDecl(ms) ==
    [k \in 1..Len(ms) |-> IF IsReal(ms[k]) THEN TakeDefault(ms[k]) ELSE ms[k]]
StructuredBind(ms) ==
    LET real == SelectSeq(ms, IsReal)
    IN [k \in 1..Len(real) |-> ImplItemOf(real[k])]

\* ------------------------------------------------------------------ claims
Range(s) == { s[k] : k \in 1..Len(s) }
Input == tokens.items
RealAt(k) == Input[k].kind \in RealKinds
\* The place, among the impl items, of the member at place k of the block.
Rank(k) == Cardinality({ j \in 1..k : RealAt(j) })
Defaultless(k) == RealAt(k) /\ Input[k].default = <<>>
Succeeded == pc = "done" /\ result.kind = "ok"
\* The default without its marker: the body, or the value after the =.
Payload(m) == IF m.kind = "Fn" THEN m.default ELSE Tail(m.default)
DeclLen == Len(TraitTokens(tokens.shell, trait_block))

\* C1: when some fn, type or const member of the block has no default, the run
\* never succeeds: it ends with the missing-default error, and the returned
\* stream holds the error alone and no part of the trait or the impl block.
C1_MissingDefaultAborts ==
    (header.ok /\ tokens.ok /\ \E k \in 1..Len(Input) : Defaultless(k))
    => /\ result.kind # "ok"
       /\ pc = "done" =>
            /\ result.kind = "error"
            /\ result.at = "member"
            /\ result.stream = <<"compile_error!", result.msg>>
            /\ Range(result.stream) \cap {"trait", "impl", "{", "}"} = {}

\* C1 witness: the third member lacks a default and the two before it, which
\* had one, were already drained and collected when the run failed.
C1_Witness ==
    /\ pc = "done"
    /\ result.at = "member"
    /\ result.span = 3
    /\ Len(items) = 2
    /\ trait_block[1].default = <<>> /\ Input[1].default # <<>>
    /\ trait_block[2].default = <<>> /\ Input[2].default # <<>>

\* C2: after a successful run no fn, type or const member of the trait block
\* holds a default, and each prints as its attributes, its signature and a bare
\* semicolon; the trait block of the returned stream is made of these members.
C2_DeclarationHasNoDefaults ==
    Succeeded =>
        /\ \A k \in 1..Len(trait_block) :
              LET d == trait_block[k] IN
              d.kind \in RealKinds =>
                 /\ d.default = <<>>
                 /\ TraitItemTokens(d) =
                       AttrTokens(d.attrs) \o <<Keyword(d.kind), d.ident>>
                       \o d.sig \o d.bounds \o <<";">>
        /\ SubSeq(result.stream, 1, DeclLen) = TraitTokens(tokens.shell, trait_block)

\* C2 witness: the block of the test trait D, a type with a default value and
\* a function with a body, went through.
C2_Witness ==
    /\ Succeeded
    /\ Len(Input) = 2
    /\ Input[1].kind = "Type" /\ Input[1].default = <<"=", "T::AA">>
    /\ Input[2].kind = "Fn" /\ Input[2].default = <<"{ self.aa() }">>

\* The signature read back from a printed member: what is left of its tokens
\* without the attributes in front and without nTail tokens at the end.
RecoveredSignature(toks, attrs, nTail) ==
    SubSeq(toks, 2 * Len(attrs) + 1, Len(toks) - nTail)
DeclSignature(d) == RecoveredSignature(TraitItemTokens(d), d.attrs, 1)
BindSignature(b) ==
    RecoveredSignature(ImplItemTokens(b), b.attrs,
                       Len(b.default) + (IF b.kind = "Fn" THEN 0 ELSE 1))
\* Everything of the input member up to its default.
InputSignature(m) == <<Keyword(m.kind), m.ident>> \o m.sig \o m.bounds

\* C3 as stated: after a successful run the declaration member and the binding
\* member of every fn, type and const member both carry the input member's
\* attributes and its whole signature.
C3_Original ==
    Succeeded =>
        \A k \in 1..Len(Input) :
           RealAt(k) =>
              LET d == trait_block[k]
                  b == items[Rank(k)]
              IN /\ d.attrs = Input[k].attrs
                 /\ b.attrs = Input[k].attrs
                 /\ DeclSignature(d) = InputSignature(Input[k])
                 /\ BindSignature(b) = InputSignature(Input[k])

\* C3 amended: both sides carry the attributes in order; the declaration member
\* carries the whole signature, and the binding member carries the keyword, the
\* name and the parameters, generics and return or type annotation, but not the
\* bounds of an associated type.
C3_AttrsAndSignatureKept ==
    Succeeded =>
        \A k \in 1..Len(Input) :
           RealAt(k) =>
              LET d == trait_block[k]
                  b == items[Rank(k)]
              IN /\ d.attrs = Input[k].attrs
                 /\ b.attrs = Input[k].attrs
                 /\ DeclSignature(d) = InputSignature(Input[k])
                 /\ BindSignature(b) =
                       <<Keyword(Input[k].kind), Input[k].ident>> \o Input[k].sig
                 /\ [d EXCEPT !.default = Input[k].default] = Input[k]

\* C3 witness: a run succeeded on a function with an attribute and on a type
\* with an attribute and bounds.
C3_Witness ==
    /\ Succeeded
    /\ \E k \in 1..Len(Input) : Input[k].kind = "Fn" /\ Input[k].attrs # <<>>
    /\ \E k \in 1..Len(Input) :
          Input[k].kind = "Type" /\ Input[k].attrs # <<>> /\ Input[k].bounds # <<>>

C5_HeaderErrorFirst ==
    (~ParseHeaderInput(first).ok /\ pc # "parse_header")
    => /\ pc = "done"
       /\ result.kind = "error"
       /\ result.at = "header"
       /\ result.msg \notin {"Expected function body", "Expected default value."}
       /\ idx = 0
       /\ trait_block = <<>>
       /\ items = <<>>

\* C5 witness: a run ended with the header error on an input whose block also
\* has a member without default.
C5_Witness ==
    /\ pc = "done"
    /\ result.at = "header"
    /\ tokens.ok
    /\ \E k \in 1..Len(Input) : Defaultless(k)

\* C6 as stated: after a successful run no macro or verbatim member of the
\* input is in the declaration block.
C6_Original ==
    Succeeded =>
        \A k \in 1..Len(Input) :
           Input[k].kind \in OpaqueKinds =>
              /\ Len(trait_block) < Len(Input)
              /\ \A j \in 1..Len(trait_block) : trait_block[j] # Input[k]

\* C6 amended: a macro or verbatim member is passed over: it stays in the
\* declaration block unchanged and at its place, no binding member is made from
\* it, and it is never the member a missing-default error is reported for.
C6_OpaqueMembersStay ==
    /\ (pc \in {"items", "done"} /\ result.kind # "error" /\ tokens.ok /\ header.ok) =>
          /\ Len(trait_block) = Len(Input)
          /\ \A k \in 1..Len(Input) :
                Input[k].kind \in OpaqueKinds => trait_block[k] = Input[k]
          /\ \A j \in 1..Len(items) : items[j].kind \in RealKinds
          /\ Len(items) <= Cardinality({ k \in 1..Len(Input) : RealAt(k) })
    /\ Succeeded =>
          \A k \in 1..Len(Input) :
             Input[k].kind \in OpaqueKinds =>
                \E p \in 1..DeclLen :
                   SubSeq(result.stream, p, p + Len(Input[k].sig) - 1) = Input[k].sig
    /\ result.at = "member" => Input[result.span].kind \in RealKinds
    /\ (pc = "done" /\ header.ok /\ tokens.ok
        /\ \A k \in 1..Len(Input) : ~Defaultless(k)) => result.kind = "ok"

\* C6 witness: a run succeeded on a block holding a macro invocation and a
\* verbatim member.
C6_Witness ==
    /\ Succeeded
    /\ \E k \in 1..Len(Input) : Input[k].kind = "Macro"
    /\ \E k \in 1..Len(Input) : Input[k].kind = "Verbatim"

\* The first member of the block without default.
FirstDefaultless ==
    CHOOSE k \in 1..Len(Input) :
       Defaultless(k) /\ \A j \in 1..(k - 1) : ~Defaultless(j)

C8_HeaderParsed ==
    /\ \A c \in HeaderParts :
          (first = HeaderText(c) /\ pc # "parse_header") =>
             /\ header.ok
             /\ header.attrs = c.attrs
             /\ header.unsafety = c.unsafety
             /\ header.generics.params = c.params
             /\ header.path = c.path
             /\ header.self_ty = c.self_ty
             /\ header.generics.where_clause = c.where_clause
    /\ (first = ExampleHeader /\ pc # "parse_header") =>
          /\ header.generics.params = <<"T: A">>
          /\ header.path = "B"
          /\ header.self_ty = "T"
          /\ header.generics.where_clause = << <<"T::AA: Send">> >>
    /\ Succeeded =>
          SubSeq(result.stream, DeclLen + 1, DeclLen + Len(first)) = first

\* C8 witness: a run succeeded under the example header.
C8_Witness == Succeeded /\ first = ExampleHeader

\* C9: after a successful run the declaration block has the members of the
\* input, one for one and in order; the binding block has one member for each
\* fn, type and const member, in the order of the input; and the returned
\* stream is the declaration block followed by the binding block.
C9_OrderPreserved ==
    Succeeded =>
        /\ Len(trait_block) = Len(Input)
        /\ \A k \in 1..Len(Input) :
              /\ trait_block[k].kind = Input[k].kind
              /\ trait_block[k].ident = Input[k].ident
              /\ trait_block[k].sig = Input[k].sig
        /\ Len(items) = Cardinality({ k \in 1..Len(Input) : RealAt(k) })
        /\ \A k \in 1..Len(Input) :
              RealAt(k) =>
                 /\ items[Rank(k)].kind = Input[k].kind
                 /\ items[Rank(k)].ident = Input[k].ident
        /\ result.stream =
              (tokens.shell \o <<"{">> \o TraitItemsTokens(trait_block) \o <<"}">>)
              \o (first \o <<"{">> \o ImplItemsTokens(items) \o <<"}">>)

\* C9 witness: a run succeeded on two members of different names, both bound,
\* with a macro invocation between them.
C9_Witness ==
    /\ Succeeded
    /\ Len(Input) = 3
    /\ Input[2].kind = "Macro"
    /\ Len(items) = 2
    /\ items[1].ident # items[2].ident

\* The loop, member by member, computes what StructuredDecl and StructuredBind
\* say of the whole block.
StructuredAgrees ==
    Succeeded =>
        /\ trait_block = StructuredDecl(Input)
        /\ items = StructuredBind(Input)

\* C10: on a block whose members all are fn, type or const members with a
\* default, the token scan ends with the declaration tokens and the binding
\* tokens of the structured splitter.
C10_SplittersAgree ==
    (ScanDone /\ \A k \in 1..Len(Input) : RealAt(k) /\ ~Defaultless(k))
    => /\ decl_stream = TraitItemsTokens(StructuredDecl(Input))
       /\ bind_stream = ImplItemsTokens(StructuredBind(Input))

====
